---- MODULE Spec2Model ----
(***************************************************************************)
(* Model of the browser overlay docs/map-tooltips.js: the three fetches,    *)
(* the Promise.all chain that attaches the hover handlers and sets up the  *)
(* culture filter, and the pointer / change handlers themselves.           *)
(* out_svg/map-tooltips.js is the earlier variant of the same script: one  *)
(* fetch, no localization and no filter, the same three pointer listeners  *)
(* and the same fallback attachHandlers({}, false) in its .catch.          *)
(*                                                                         *)
(* A JavaScript string is a sequence of one-character strings; a piece of  *)
(* HTML is such a sequence too, in which a literal of the source (a tag    *)
(* with its style attribute) is one element.                               *)
(***************************************************************************)
EXTENDS Integers, Sequences, FiniteSets, TLC

\* ------------------------------------------------------------------------
\* Bounds of the input spaces
\* ------------------------------------------------------------------------
MaxUnits == 2
MaxCultures == 2
MaxList == 2

\* ------------------------------------------------------------------------
\* Strings
\* ------------------------------------------------------------------------
Empty == <<>>

CharOrder == <<"&", "<", "1", "2", "p", "q", "u", "v", "x", "y", "z">>

CharRank(c) == CHOOSE i \in 1..Len(CharOrder) : CharOrder[i] = c

RECURSIVE localeCompare(_, _)
localeCompare(a, b) ==
    IF a = Empty THEN (IF b = Empty THEN 0 ELSE -1)
    ELSE IF b = Empty THEN 1
    ELSE IF CharRank(Head(a)) < CharRank(Head(b)) THEN -1
    ELSE IF CharRank(Head(a)) > CharRank(Head(b)) THEN 1
    ELSE localeCompare(Tail(a), Tail(b))

RECURSIVE replaceAll(_, _, _)
replaceAll(s, c, r) ==
    IF s = Empty THEN Empty
    ELSE (IF Head(s) = c THEN r ELSE <<Head(s)>>) \o replaceAll(Tail(s), c, r)

esc(s) ==
    LET s1 == replaceAll(s, "&", <<"&", "a", "m", "p", ";">>)
        s2 == replaceAll(s1, "<", <<"&", "l", "t", ";">>)
        s3 == replaceAll(s2, ">", <<"&", "g", "t", ";">>)
        s4 == replaceAll(s3, "\"", <<"&", "q", "u", "o", "t", ";">>)
    IN  replaceAll(s4, "'", <<"&", "#", "3", "9", ";">>)

\* ------------------------------------------------------------------------
\* Localization helpers.  loc is [kind, regions, factions, units]: kind is
\* "null" (loc_data.json failed) or "object"; each table is a function from
\* the keys it has to their names.
\* ------------------------------------------------------------------------
NoTable == [k \in {} |-> Empty]

NullLoc == [kind |-> "null", regions |-> NoTable, factions |-> NoTable, units |-> NoTable]

locRegion(id, loc) ==
    IF loc.kind = "object" /\ id \in DOMAIN loc.regions THEN loc.regions[id] ELSE id

locCulture(key, loc) ==
    IF loc.kind = "object" /\ key \in DOMAIN loc.factions THEN loc.factions[key] ELSE key

locUnit(key, loc) ==
    IF loc.kind = "object" /\ key \in DOMAIN loc.units THEN loc.units[key] ELSE key

\* ------------------------------------------------------------------------
\* Province data: [kind, entries].  kind "undefined" (no entry), "null", or
\* "object" with entries = Object.entries order, each [key, isArray, units].
\* ------------------------------------------------------------------------
Undefined == [kind |-> "undefined", entries |-> <<>>]

NullData == [kind |-> "null", entries |-> <<>>]

Obj(entries) == [kind |-> "object", entries |-> entries]

Keys(pd) == {pd.entries[i].key : i \in 1..Len(pd.entries)}

hasOwnProperty(pd, key) == pd.kind = "object" /\ key \in Keys(pd)

Get(pd, key) ==
    IF hasOwnProperty(pd, key)
    THEN LET i == CHOOSE j \in 1..Len(pd.entries) : pd.entries[j].key = key
         IN  pd.entries[i]
    ELSE [key |-> key, isArray |-> FALSE, units |-> <<>>]

\* Stable sort (Array.prototype.sort) of a sequence of [lab, item] records by
\* lab.localeCompare: an element moves left only past strictly greater labels.
RECURSIVE insertSorted(_, _)
insertSorted(sorted, e) ==
    IF sorted = <<>> THEN <<e>>
    ELSE IF localeCompare(sorted[Len(sorted)].lab, e.lab) <= 0 THEN Append(sorted, e)
    ELSE Append(insertSorted(SubSeq(sorted, 1, Len(sorted) - 1), e), sorted[Len(sorted)])

\* sort left out: the sequence as it came
unsorted(s) == s

RECURSIVE sort(_)
sort(s) ==
    IF s = <<>> THEN <<>>
    ELSE insertSorted(sort(SubSeq(s, 1, Len(s) - 1)), s[Len(s)])

RECURSIVE join(_)
join(parts) == IF parts = <<>> THEN <<>> ELSE Head(parts) \o join(Tail(parts))

\* ------------------------------------------------------------------------
\* buildTooltipHTML
\* ------------------------------------------------------------------------
TitleOpen == "<div style=\"font-weight:700;margin-bottom:.25rem\">"
LabelOpen == "<div style=\"margin:.35rem 0 .2rem;font-weight:600\">"
ListOpen == "<ul style=\"margin:.1rem 0 .4rem .9rem;padding:0;list-style:disc\">"
NoneDiv == "<div style=\"opacity:.8;margin-left:.9rem\">(none)</div>"
NoDataDiv == "<div style=\"opacity:.8;margin-top:.25rem\">No data</div>"

unitItems(units, loc) ==
    join([i \in 1..Len(units) |-> <<"<li>">> \o esc(locUnit(units[i], loc)) \o <<"</li>">>])

\* section without the test for an empty array
sectionNoNone(label, entry, loc) ==
    IF entry.isArray
    THEN <<LabelOpen>> \o esc(label) \o <<"</div>", ListOpen>>
         \o unitItems(entry.units, loc) \o <<"</ul>">>
    ELSE <<LabelOpen>> \o esc(label) \o <<"</div>", NoneDiv>>

section(label, entry, loc) ==
    IF entry.isArray /\ Len(entry.units) > 0
    THEN <<LabelOpen>> \o esc(label) \o <<"</div>", ListOpen>>
         \o unitItems(entry.units, loc) \o <<"</ul>">>
    ELSE <<LabelOpen>> \o esc(label) \o <<"</div>", NoneDiv>>

buildTooltipHTML(provinceId, provinceData, locData, filterCulture) ==
    LET title == locRegion(provinceId, locData)
        hasData == provinceData.kind = "object" /\ Len(provinceData.entries) > 0
        active == filterCulture
        entries == sort([i \in 1..Len(provinceData.entries) |->
                           [lab |-> locCulture(provinceData.entries[i].key, locData),
                            item |-> provinceData.entries[i]]])
    IN  IF ~hasData
        THEN <<"<div>", "<strong>">> \o esc(title) \o <<"</strong>", NoDataDiv, "</div>">>
        ELSE IF active # Empty
        THEN <<TitleOpen>> \o esc(title) \o <<"</div>">>
             \o section(locCulture(active, locData), Get(provinceData, active), locData)
        ELSE <<TitleOpen>> \o esc(title) \o <<"</div>">>
             \o join([i \in 1..Len(entries) |->
                        section(entries[i].lab, entries[i].item, locData)])

\* ------------------------------------------------------------------------
\* The page and the data files
\* ------------------------------------------------------------------------
P == <<"p">>
Q == <<"q", "&">>
X == <<"x">>
Y == <<"y">>
U == <<"u">>
V == <<"v", "<">>

\* document.querySelectorAll('path.province'), in document order
provinces == <<P, Q>>

ProvinceIds == {provinces[i] : i \in 1..Len(provinces)}

Entry(key, isArray, units) == [key |-> key, isArray |-> isArray, units |-> units]

\* Region data: [kind, entries]; kind "null" is the JSON text null, entries
\* is Object.entries order, each [id, data].
EmptyRegionData == [kind |-> "object", entries |-> <<>>]

RegionIds(rd) == {rd.entries[i].id : i \in 1..Len(rd.entries)}

Lookup(rd, pid) ==
    IF pid \in RegionIds(rd)
    THEN LET i == CHOOSE j \in 1..Len(rd.entries) : rd.entries[j].id = pid
         IN  rd.entries[i].data
    ELSE Undefined

ProvinceDataSet ==
    { Undefined, NullData, Obj(<<>>),
      Obj(<<Entry(X, TRUE, <<U, V>>)>>),
      Obj(<<Entry(Y, TRUE, <<V>>), Entry(X, FALSE, <<>>)>>) }

RECURSIVE DropUndefined(_)
DropUndefined(es) ==
    IF es = <<>> THEN <<>>
    ELSE (IF Head(es).data.kind = "undefined" THEN <<>> ELSE <<Head(es)>>)
         \o DropUndefined(Tail(es))

RegionDocs ==
    { [kind |-> "null", entries |-> <<>>] } \cup
    { [kind |-> "object",
       entries |-> DropUndefined(<<[id |-> P, data |-> dp], [id |-> Q, data |-> dq]>>)]
      : dp \in ProvinceDataSet, dq \in ProvinceDataSet }

LocDocs ==
    { [kind |-> "object", regions |-> NoTable, factions |-> NoTable, units |-> NoTable],
      [kind |-> "object",
       regions |-> (P :> <<"z", "&">>),
       factions |-> (X :> <<"z">>),
       units |-> (V :> <<"1", "<">>)] }

\* A culture list: [isArray, items]; an item is [str, s], s being String(item)
\* and str telling whether the item is a JavaScript string.
Str(s) == [str |-> TRUE, s |-> s]
Num(s) == [str |-> FALSE, s |-> s]

EmptyList == [isArray |-> TRUE, items |-> <<>>]

ListItems == {Str(X), Str(Y), Num(<<"1">>), Num(<<"2">>)}

SeqsUpTo(S, n) == UNION {[1..k -> S] : k \in 0..n}

CultureDocs ==
    { [isArray |-> FALSE, items |-> <<>>] } \cup
    { [isArray |-> TRUE, items |-> l] : l \in SeqsUpTo(ListItems, MaxList) }

\* Layout answered by getBoundingClientRect: wrap is at the origin, and the
\* tip, positioned inside wrap, has a fixed rendered size.
WrapWidth == 100
WrapHeight == 100
TipWidth == 40
TipHeight == 20

PointerXs == {80}
PointerYs == {5}

\* ------------------------------------------------------------------------
\* State
\* ------------------------------------------------------------------------
VARIABLES
    started,        \* init() has run
    hasSelect,      \* document.getElementById('culture') is not null
    fetchCount,     \* fetch() calls per file
    regionFetch,    \* [st, val, err]
    locFetch,       \* [st, val, failed]: the promise after its .catch
    culturesFetch,  \* [st, val, failed]: the promise after its .catch
    chain,          \* callbacks of Promise.all(...).then(...).catch(...) that ran
    enterL,         \* province -> its pointerenter listeners, in order
    moveL,          \* province -> its pointermove listeners
    leaveL,         \* province -> its pointerleave listeners
    changeL,        \* change listeners of the culture select
    options,        \* options of the select after the first ("All") one
    selectValue,    \* cultureSelect.value
    tip,            \* [innerHTML, display, left, top]
    highlight,      \* province -> classList contains 'is-highlight'
    over,           \* the province under the pointer, or <<>>
    ev,             \* the event dispatched last: [type, target]
    args,           \* arguments of a direct call of buildTooltipHTML
    html            \* [done, value]: what that call returned

vars == <<started, hasSelect, fetchCount, regionFetch, locFetch, culturesFetch, chain,
          enterL, moveL, leaveL, changeL, options, selectValue, tip, highlight,
          over, ev, args, html>>

pageVars == <<started, hasSelect, fetchCount, regionFetch, locFetch, culturesFetch, chain,
              enterL, moveL, leaveL, changeL, options, selectValue, tip, highlight,
              over, ev>>

callVars == <<args, html>>

Files == {"region_data.json", "loc_data.json", "cultures_list.json"}

NoEvent == [type |-> "none", target |-> Empty]

NoArgs == [provinceId |-> Empty, provinceData |-> Undefined, locData |-> NullLoc,
           filterCulture |-> Empty]

NoCall == [done |-> FALSE, value |-> <<>>]

Idle(val) == [st |-> "idle", val |-> val, failed |-> FALSE]

PageInit ==
    /\ started = FALSE
    /\ hasSelect \in BOOLEAN
    /\ fetchCount = [f \in Files |-> 0]
    /\ regionFetch = [st |-> "idle", val |-> EmptyRegionData, err |-> ""]
    /\ locFetch = Idle(NullLoc)
    /\ culturesFetch = Idle(EmptyList)
    /\ chain = <<>>
    /\ enterL = [p \in ProvinceIds |-> <<>>]
    /\ moveL = [p \in ProvinceIds |-> <<>>]
    /\ leaveL = [p \in ProvinceIds |-> <<>>]
    /\ changeL = <<>>
    /\ options = <<>>
    /\ selectValue = Empty
    /\ tip = [innerHTML |-> <<>>, display |-> "", left |-> 0, top |-> 0]
    /\ highlight = [p \in ProvinceIds |-> FALSE]
    /\ over = Empty
    /\ ev = NoEvent

Init == PageInit /\ args = NoArgs /\ html = NoCall

\* ------------------------------------------------------------------------
\* init: the three fetches are issued
\* ------------------------------------------------------------------------
init ==
    /\ ~started
    /\ started' = TRUE
    /\ fetchCount' = [f \in Files |-> fetchCount[f] + 1]
    /\ regionFetch' = [regionFetch EXCEPT !.st = "pending"]
    /\ locFetch' = [locFetch EXCEPT !.st = "pending"]
    /\ culturesFetch' = [culturesFetch EXCEPT !.st = "pending"]
    /\ ev' = [type |-> "init", target |-> Empty]
    /\ UNCHANGED <<hasSelect, chain, enterL, moveL, leaveL, changeL, options,
                   selectValue, tip, highlight, over, callVars>>

fetchUnchanged == UNCHANGED <<started, hasSelect, fetchCount, chain, enterL, moveL, leaveL,
                              changeL, options, selectValue, tip, highlight, over, callVars>>

regionLoaded ==
    /\ regionFetch.st = "pending"
    /\ \E doc \in RegionDocs :
         regionFetch' = [st |-> "fulfilled", val |-> doc, err |-> ""]
    /\ ev' = [type |-> "settle", target |-> Empty]
    /\ UNCHANGED <<locFetch, culturesFetch>>
    /\ fetchUnchanged

\* a network error, r.ok false, or r.json() rejecting
regionFailed ==
    /\ regionFetch.st = "pending"
    /\ \E e \in {"network", "http", "json"} :
         regionFetch' = [regionFetch EXCEPT !.st = "rejected", !.err = e]
    /\ ev' = [type |-> "settle", target |-> Empty]
    /\ UNCHANGED <<locFetch, culturesFetch>>
    /\ fetchUnchanged

locLoaded ==
    /\ locFetch.st = "pending"
    /\ \E doc \in LocDocs :
         locFetch' = [st |-> "fulfilled", val |-> doc, failed |-> FALSE]
    /\ ev' = [type |-> "settle", target |-> Empty]
    /\ UNCHANGED <<regionFetch, culturesFetch>>
    /\ fetchUnchanged

locFailed ==
    /\ locFetch.st = "pending"
    /\ locFetch' = [st |-> "fulfilled", val |-> NullLoc, failed |-> TRUE]
    /\ ev' = [type |-> "settle", target |-> Empty]
    /\ UNCHANGED <<regionFetch, culturesFetch>>
    /\ fetchUnchanged

culturesLoaded ==
    /\ culturesFetch.st = "pending"
    /\ \E doc \in CultureDocs :
         culturesFetch' = [st |-> "fulfilled", val |-> doc, failed |-> FALSE]
    /\ ev' = [type |-> "settle", target |-> Empty]
    /\ UNCHANGED <<regionFetch, locFetch>>
    /\ fetchUnchanged

culturesFailed ==
    /\ culturesFetch.st = "pending"
    /\ culturesFetch' = [st |-> "fulfilled", val |-> EmptyList, failed |-> TRUE]
    /\ ev' = [type |-> "settle", target |-> Empty]
    /\ UNCHANGED <<regionFetch, locFetch>>
    /\ fetchUnchanged

\* ------------------------------------------------------------------------
\* The DOM the callbacks work on, as a record of the variables they change
\* ------------------------------------------------------------------------
Dom == [enterL |-> enterL, moveL |-> moveL, leaveL |-> leaveL, changeL |-> changeL,
        options |-> options, selectValue |-> selectValue, highlight |-> highlight]

Threw(d) == [threw |-> TRUE, dom |-> d]
Returned(d) == [threw |-> FALSE, dom |-> d]

\* attachHandlers: reading regionData[pid] of null throws at the first
\* province, before any listener is added
attachHandlers(d, regionData, hasData, locData) ==
    LET pdata(p) == IF hasData THEN Lookup(regionData, p) ELSE Undefined
        hover(p) == [pid |-> p, pdata |-> pdata(p), locData |-> locData]
    IN  IF hasData /\ regionData.kind = "null"
        THEN Threw(d)
        ELSE Returned([d EXCEPT
                 !.enterL = [p \in ProvinceIds |-> Append(d.enterL[p], hover(p))],
                 !.moveL = [p \in ProvinceIds |-> Append(d.moveL[p], hover(p))],
                 !.leaveL = [p \in ProvinceIds |-> Append(d.leaveL[p], [pid |-> p])]])

\* Whether opts.sort(...) throws: locCulture(a, locData).localeCompare is not
\* a function when a is not a string and has no localized name.  With fewer
\* than two elements the comparator is not called; which element is passed
\* as a is left to the engine.
noLabel(item, locData) ==
    ~item.str /\ ~(locData.kind = "object" /\ item.s \in DOMAIN locData.factions)

sortThrows(items, locData) ==
    IF Len(items) < 2 \/ \A i \in 1..Len(items) : ~noLabel(items[i], locData) THEN {FALSE}
    ELSE IF \A i \in 1..Len(items) : noLabel(items[i], locData) THEN {TRUE}
    ELSE {TRUE, FALSE}

populateCultureSelect(d, list, locData, throws) ==
    LET cleared == [d EXCEPT !.options = <<>>, !.selectValue = Empty]
        opts == sort([i \in 1..Len(list) |->
                        [lab |-> locCulture(list[i].s, locData), item |-> list[i]]])
    IN  IF ~hasSelect THEN Returned(d)
        ELSE IF throws THEN Threw(cleared)
        ELSE Returned([cleared EXCEPT
                 !.options = [i \in 1..Len(opts) |->
                                [value |-> opts[i].item.s, text |-> opts[i].lab]]])

\* applyFilter matching every province that has a data object
applyFilterAnyKey(value, regionData, hasData) ==
    [p \in ProvinceIds |->
        LET pdata == IF hasData THEN Lookup(regionData, p) ELSE Undefined
        IN  value # Empty /\ pdata.kind = "object"]

applyFilter(value, regionData, hasData) ==
    [p \in ProvinceIds |->
        LET pdata == IF hasData THEN Lookup(regionData, p) ELSE Undefined
        IN  value # Empty /\ hasOwnProperty(pdata, value)]

\* new Set() filled with the keys of every object among Object.values(regionData)
RECURSIVE addAll(_, _)
addAll(set, keys) ==
    IF keys = <<>> THEN set
    ELSE addAll(IF \E i \in 1..Len(set) : set[i] = Head(keys) THEN set
                ELSE Append(set, Head(keys)), Tail(keys))

RECURSIVE derivedOptions(_, _)
derivedOptions(set, values) ==
    IF values = <<>> THEN set
    ELSE derivedOptions(
            IF Head(values).data.kind = "object"
            THEN addAll(set, [i \in 1..Len(Head(values).data.entries) |->
                                Head(values).data.entries[i].key])
            ELSE set,
            Tail(values))

\* the list setupCultureFilter hands to populateCultureSelect
cultureOptions(regionData, hasData, cultureList) ==
    LET given == IF cultureList.isArray /\ Len(cultureList.items) > 0
                 THEN cultureList.items ELSE <<>>
        derived == derivedOptions(<<>>, regionData.entries)
    IN  IF Len(given) = 0 /\ hasData
        THEN [i \in 1..Len(derived) |-> Str(derived[i])]
        ELSE given

setupCultureFilter(d, regionData, hasData, locData, cultureList, throws) ==
    LET opts == cultureOptions(regionData, hasData, cultureList)
        populated == populateCultureSelect(d, opts, locData, throws)
    IN  IF ~hasSelect THEN Returned(d)
        ELSE IF populated.threw THEN populated
        ELSE Returned([populated.dom EXCEPT
                 !.changeL = Append(@, [regionData |-> regionData, hasData |-> hasData]),
                 !.highlight = applyFilter(Empty, regionData, hasData)])

\* a .catch callback that only sets up the filter
onRejectedSetupOnly(d) ==
    setupCultureFilter(d, EmptyRegionData, FALSE, NullLoc, EmptyList, FALSE).dom

\* the .catch callback
onRejected(d) ==
    setupCultureFilter(attachHandlers(d, EmptyRegionData, FALSE, NullLoc).dom,
                       EmptyRegionData, FALSE, NullLoc, EmptyList, FALSE).dom

\* the .then callback, followed by the .catch callback when it throws
onFulfilled(d, regionData, locData, cultureList, throws) ==
    LET attached == attachHandlers(d, regionData, TRUE, locData)
        setup == setupCultureFilter(attached.dom, regionData, TRUE, locData, cultureList, throws)
    IN  IF attached.threw THEN Threw(onRejected(attached.dom))
        ELSE IF setup.threw THEN Threw(onRejected(setup.dom))
        ELSE Returned(setup.dom)

setDom(d) ==
    /\ enterL' = d.enterL
    /\ moveL' = d.moveL
    /\ leaveL' = d.leaveL
    /\ changeL' = d.changeL
    /\ options' = d.options
    /\ selectValue' = d.selectValue
    /\ highlight' = d.highlight

chainUnchanged == UNCHANGED <<started, hasSelect, fetchCount, regionFetch, locFetch,
                              culturesFetch, tip, over, callVars>>

\* Promise.all fulfils once the three promises have
allFulfilled ==
    /\ chain = <<>>
    /\ regionFetch.st = "fulfilled"
    /\ locFetch.st = "fulfilled"
    /\ culturesFetch.st = "fulfilled"
    /\ \E throws \in sortThrows(cultureOptions(regionFetch.val, TRUE, culturesFetch.val),
                                locFetch.val) :
         LET r == onFulfilled(Dom, regionFetch.val, locFetch.val, culturesFetch.val, throws)
         IN  /\ setDom(r.dom)
             /\ chain' = IF r.threw THEN <<"then", "catch">> ELSE <<"then">>
    /\ ev' = [type |-> "setup", target |-> Empty]
    /\ chainUnchanged

\* Promise.all rejects as soon as regionFetch does
allRejected ==
    /\ chain = <<>>
    /\ regionFetch.st = "rejected"
    /\ setDom(onRejected(Dom))
    /\ chain' = <<"catch">>
    /\ ev' = [type |-> "setup", target |-> Empty]
    /\ chainUnchanged

\* ------------------------------------------------------------------------
\* Pointer and change events
\* ------------------------------------------------------------------------
Max(a, b) == IF a > b THEN a ELSE b

positionTip(t, evt) ==
    LET x == evt.clientX - 0 + 10
        y == evt.clientY - 0 + 10
        overRight == (x + TipWidth) - WrapWidth
        overBottom == (y + TipHeight) - WrapHeight
    IN  [t EXCEPT !.left = IF overRight > 0 THEN Max(0, x - overRight - 12) ELSE x,
                  !.top = IF overBottom > 0 THEN Max(0, y - overBottom - 12) ELSE y]

\* (cultureSelect && cultureSelect.value) || ''
filterValue == IF hasSelect THEN selectValue ELSE Empty

onPointerEnter(t, h, evt) ==
    positionTip([t EXCEPT
                   !.innerHTML = buildTooltipHTML(h.pid, h.pdata, h.locData, filterValue),
                   !.display = "block"], evt)

\* pointermove that only repositions
onPointerMoveNoShow(t, h, evt) == positionTip(t, evt)

onPointerMove(t, h, evt) ==
    positionTip(IF t.display # "block"
                THEN [t EXCEPT
                        !.innerHTML = buildTooltipHTML(h.pid, h.pdata, h.locData, filterValue),
                        !.display = "block"]
                ELSE t, evt)

onPointerLeave(t, h) == [t EXCEPT !.display = "none"]

\* the listeners of one element run in the order they were added
RECURSIVE dispatchEnter(_, _, _)
dispatchEnter(t, listeners, evt) ==
    IF listeners = <<>> THEN t
    ELSE dispatchEnter(onPointerEnter(t, Head(listeners), evt), Tail(listeners), evt)

RECURSIVE dispatchMove(_, _, _)
dispatchMove(t, listeners, evt) ==
    IF listeners = <<>> THEN t
    ELSE dispatchMove(onPointerMove(t, Head(listeners), evt), Tail(listeners), evt)

RECURSIVE dispatchLeave(_, _)
dispatchLeave(t, listeners) ==
    IF listeners = <<>> THEN t
    ELSE dispatchLeave(onPointerLeave(t, Head(listeners)), Tail(listeners))

RECURSIVE dispatchChange(_, _, _)
dispatchChange(hl, listeners, value) ==
    IF listeners = <<>> THEN hl
    ELSE dispatchChange(applyFilter(value, Head(listeners).regionData, Head(listeners).hasData),
                        Tail(listeners), value)

Pointers == [clientX : PointerXs, clientY : PointerYs]

pointerUnchanged == UNCHANGED <<started, hasSelect, fetchCount, regionFetch, locFetch,
                                culturesFetch, chain, enterL, moveL, leaveL, changeL,
                                options, selectValue, highlight, callVars>>

pointerenter ==
    /\ over = Empty
    /\ \E p \in ProvinceIds, evt \in Pointers :
         /\ over' = p
         /\ tip' = dispatchEnter(tip, enterL[p], evt)
         /\ ev' = [type |-> "pointerenter", target |-> p]
    /\ pointerUnchanged

pointermove ==
    /\ over # Empty
    /\ \E evt \in Pointers :
         tip' = dispatchMove(tip, moveL[over], evt)
    /\ ev' = [type |-> "pointermove", target |-> over]
    /\ UNCHANGED over
    /\ pointerUnchanged

pointerleave ==
    /\ over # Empty
    /\ over' = Empty
    /\ tip' = dispatchLeave(tip, leaveL[over])
    /\ ev' = [type |-> "pointerleave", target |-> over]
    /\ pointerUnchanged

OptionValues == {options[i].value : i \in 1..Len(options)}

\* the user picks another option of the select
change ==
    /\ hasSelect
    /\ \E v \in OptionValues \cup {Empty} :
         /\ v # selectValue
         /\ selectValue' = v
         /\ highlight' = dispatchChange(highlight, changeL, v)
    /\ ev' = [type |-> "change", target |-> Empty]
    /\ UNCHANGED <<started, hasSelect, fetchCount, regionFetch, locFetch, culturesFetch,
                   chain, enterL, moveL, leaveL, changeL, options, tip, over, callVars>>

Next ==
    \/ init
    \/ regionLoaded
    \/ regionFailed
    \/ locLoaded
    \/ locFailed
    \/ culturesLoaded
    \/ culturesFailed
    \/ allFulfilled
    \/ allRejected
    \/ pointerenter
    \/ pointermove
    \/ pointerleave
    \/ change

Spec == Init /\ [][Next]_vars

\* Scheduling: once Promise.all has rejected, its .catch callback runs as a
\* microtask
LiveSpec == Spec /\ WF_vars(allRejected)

\* ------------------------------------------------------------------------
\* Pointer events in any order (several pointers, synthetic events)
\* ------------------------------------------------------------------------
anyPointerenter ==
    /\ \E p \in ProvinceIds, evt \in Pointers :
         /\ over' = p
         /\ tip' = dispatchEnter(tip, enterL[p], evt)
         /\ ev' = [type |-> "pointerenter", target |-> p]
    /\ pointerUnchanged

anyPointermove ==
    /\ \E p \in ProvinceIds, evt \in Pointers :
         /\ over' = p
         /\ tip' = dispatchMove(tip, moveL[p], evt)
         /\ ev' = [type |-> "pointermove", target |-> p]
    /\ pointerUnchanged

anyPointerleave ==
    /\ \E p \in ProvinceIds :
         /\ over' = Empty
         /\ tip' = dispatchLeave(tip, leaveL[p])
         /\ ev' = [type |-> "pointerleave", target |-> p]
    /\ pointerUnchanged

NextAny ==
    \/ init
    \/ regionLoaded
    \/ regionFailed
    \/ locLoaded
    \/ locFailed
    \/ culturesLoaded
    \/ culturesFailed
    \/ allFulfilled
    \/ allRejected
    \/ anyPointerenter
    \/ anyPointermove
    \/ anyPointerleave
    \/ change

SpecAny == Init /\ [][NextAny]_vars

\* ------------------------------------------------------------------------
\* Properties
\* ------------------------------------------------------------------------
setupDone == chain # <<>>

\* what region_data.json holds for a province
realData(p) ==
    IF regionFetch.st = "fulfilled" THEN Lookup(regionFetch.val, p) ELSE Undefined

InitialTip == [innerHTML |-> <<>>, display |-> "", left |-> 0, top |-> 0]

NoDataHTML(title) == <<"<div>", "<strong>">> \o esc(title) \o <<"</strong>", NoDataDiv, "</div>">>

\* C2: a province carries is-highlight exactly when the selected culture value
\* is non-empty and the province's region-data object has that value as a key;
\* so none is highlighted under "All", nor right after setup.
C2_HighlightIffSelectedKey ==
    \A p \in ProvinceIds :
        highlight[p] <=> (hasSelect /\ selectValue # Empty
                          /\ realData(p).kind = "object"
                          /\ \E i \in 1..Len(realData(p).entries) :
                                realData(p).entries[i].key = selectValue)

C2_Witness ==
    /\ ev.type = "change"
    /\ selectValue # Empty
    /\ \E p, q \in ProvinceIds : highlight[p] /\ ~highlight[q]

\* C6: the tooltip is hidden right after every pointerleave and visible right
\* after every pointerenter and pointermove on a province with handlers;
\* pointer events before the handlers are attached change nothing.
C6_DisplayFollowsPointer ==
    /\ ev.type = "pointerleave" /\ setupDone => tip.display = "none"
    /\ ev.type \in {"pointerenter", "pointermove"} /\ setupDone => tip.display = "block"
    /\ ~setupDone => tip = InitialTip /\ highlight = [p \in ProvinceIds |-> FALSE]

C6_Witness ==
    /\ ev.type = "pointerleave"
    /\ setupDone
    /\ tip.display = "none"
    /\ tip.innerHTML # <<>>

handlersAttached ==
    \A p \in ProvinceIds : enterL[p] # <<>> /\ moveL[p] # <<>> /\ leaveL[p] # <<>>

Z == <<"z">>

CultureKeys == {X, Y, Z}

Units == {U, V}

ValueSet ==
    {[isArray |-> FALSE, units |-> <<>>]} \cup
    {[isArray |-> TRUE, units |-> us] : us \in SeqsUpTo(Units, MaxUnits)}

\* objects of at most MaxCultures distinct keys, in every key order
ObjectSet ==
    { Obj([i \in 1..Len(ks) |-> Entry(ks[i], vs[i].isArray, vs[i].units)]) :
        <<ks, vs>> \in UNION { {kv \in [1..n -> CultureKeys] \X [1..n -> ValueSet] :
                                  \A i, j \in 1..n : i # j => kv[1][i] # kv[1][j]}
                               : n \in 0..MaxCultures } }

BuildLocs ==
    LocDocs \cup
    { NullLoc,
      [kind |-> "object", regions |-> (Q :> <<"p">>), factions |-> (X :> Y) @@ (Z :> <<"&">>),
       units |-> (U :> V)] }

BuildArgs ==
    [provinceId : ProvinceIds, provinceData : {Undefined, NullData} \cup ObjectSet,
     locData : BuildLocs, filterCulture : {Empty, X, Z}]

InitBuild == PageInit /\ hasSelect /\ args \in BuildArgs /\ html = NoCall

call ==
    /\ ~html.done
    /\ html' = [done |-> TRUE,
                value |-> buildTooltipHTML(args.provinceId, args.provinceData, args.locData,
                                           args.filterCulture)]
    /\ UNCHANGED <<pageVars, args>>

NextBuild == call

SpecBuild == InitBuild /\ [][NextBuild]_vars

\* the markup the properties expect, written out on its own
titleOf(a) ==
    IF a.locData.kind = "object" /\ a.provinceId \in DOMAIN a.locData.regions
    THEN a.locData.regions[a.provinceId] ELSE a.provinceId

labelOf(a, c) ==
    IF a.locData.kind = "object" /\ c \in DOMAIN a.locData.factions
    THEN a.locData.factions[c] ELSE c

unitNameOf(a, u) ==
    IF a.locData.kind = "object" /\ u \in DOMAIN a.locData.units
    THEN a.locData.units[u] ELSE u

RECURSIVE listOf(_, _)
listOf(a, units) ==
    IF units = <<>> THEN <<>>
    ELSE <<"<li>">> \o esc(unitNameOf(a, Head(units))) \o <<"</li>">> \o listOf(a, Tail(units))

sectionOf(a, c, isList, units) ==
    <<LabelOpen>> \o esc(labelOf(a, c)) \o <<"</div>">>
    \o (IF isList /\ units # <<>>
        THEN <<ListOpen>> \o listOf(a, units) \o <<"</ul>">>
        ELSE <<NoneDiv>>)

titleDivOf(a) == <<TitleOpen>> \o esc(titleOf(a)) \o <<"</div>">>

hasEntries(a) == a.provinceData.kind = "object" /\ a.provinceData.entries # <<>>

RECURSIVE sectionsOf(_, _, _)
sectionsOf(a, order, i) ==
    IF i > Len(a.provinceData.entries) THEN <<>>
    ELSE LET e == a.provinceData.entries[order[i]]
         IN  sectionOf(a, e.key, e.isArray, e.units) \o sectionsOf(a, order, i + 1)

regionObjectLoaded == regionFetch.st = "fulfilled" /\ regionFetch.val.kind = "object"

\* the localization the handlers are meant to use: loc_data.json when the
\* region data was delivered to the .then callback
intendedLoc == IF regionObjectLoaded /\ locFetch.st = "fulfilled" THEN locFetch.val ELSE NullLoc

noRealData(p) == ~(realData(p).kind = "object" /\ realData(p).entries # <<>>)

\* C1: a pointerenter or pointermove on a province without region data sets the
\* tooltip to the region's title (its localized name when the localization
\* table has the id, else the raw id) followed by a "No data" body, whatever
\* the culture filter.  The localization table is taken to be the one handed
\* to the handlers: none when region_data.json failed.
C1_NoDataTooltip ==
    /\ setupDone
    /\ ev.type \in {"pointerenter", "pointermove"}
    /\ noRealData(ev.target)
    => /\ tip.display = "block"
       /\ tip.innerHTML = NoDataHTML(locRegion(ev.target, intendedLoc))

\* C3: with region_data.json loaded, whether or not loc_data.json and
\* cultures_list.json loaded, the hover handlers show the province's real
\* region data (with raw keys when loc_data.json failed), and a failed
\* cultures_list.json makes the options be derived from the region data.
C3_SideFilesOptional ==
    /\ setupDone /\ regionObjectLoaded /\ ev.type = "pointerenter" /\ ~noRealData(ev.target)
       => /\ tip.display = "block"
          /\ tip.innerHTML = buildTooltipHTML(ev.target, realData(ev.target), locFetch.val,
                                              filterValue)
    /\ setupDone /\ regionObjectLoaded /\ hasSelect /\ culturesFetch.failed
       => OptionValues = UNION {Keys(realData(id)) : id \in RegionIds(regionFetch.val)}

\* C5: each file is fetched once, every province ends up with exactly one
\* pointerenter, one pointermove and one pointerleave handler and the select
\* with exactly one change listener, all bound to the same captured data.
C5_OneHandlerEach ==
    /\ \A f \in Files : fetchCount[f] = IF started THEN 1 ELSE 0
    /\ setupDone =>
         /\ \A p \in ProvinceIds :
              /\ Len(enterL[p]) = 1 /\ Len(moveL[p]) = 1 /\ Len(leaveL[p]) = 1
              /\ enterL[p] = moveL[p]
              /\ hasSelect => Lookup(changeL[1].regionData, p) = enterL[p][1].pdata
         /\ hasSelect => Len(changeL) = 1
         /\ \A p, q \in ProvinceIds : enterL[p][1].locData = enterL[q][1].locData

noDuplicates(items) == \A i, j \in 1..Len(items) : items[i] = items[j] => i = j

\* C9: after setup the select holds, after "All", exactly one option per
\* culture key, ordered by displayed label: the keys of cultures_list.json
\* when that is a non-empty array, else the union of the culture keys of all
\* region-data entries.  Stated for region data that loaded and a list
\* without repeated items.
C9_SelectOptions ==
    setupDone /\ hasSelect /\ regionObjectLoaded
    /\ noDuplicates(culturesFetch.val.items) =>
        LET list == culturesFetch.val
            keys == IF list.isArray /\ list.items # <<>>
                    THEN {list.items[i].s : i \in 1..Len(list.items)}
                    ELSE UNION {Keys(realData(id)) : id \in RegionIds(regionFetch.val)}
        IN  /\ OptionValues = keys
            /\ Len(options) = Cardinality(keys)
            /\ \A i \in 1..(Len(options) - 1) :
                  localeCompare(options[i].text, options[i + 1].text) <= 0
            /\ \A i \in 1..Len(options) :
                  options[i].text = locCulture(options[i].value, locFetch.val)

\* C10: whenever the tooltip is visible its content is the tooltip built for
\* the province under the pointer with the select's current value.
C10_TooltipFollowsFilter ==
    tip.display = "block" =>
        /\ over # Empty
        /\ \E i \in 1..Len(enterL[over]) :
              tip.innerHTML = buildTooltipHTML(over, enterL[over][i].pdata,
                                               enterL[over][i].locData, filterValue)

====
